---- MODULE Spec2Model ----
(***************************************************************************)
(* Model of the conversion optimizer of arc_zardian                        *)
(* (src/src/arc_zardian/core/optimizer.py, core/models.py).                *)
(*                                                                         *)
(* One ConversionOptimizer with its provider mapping, and sequential       *)
(* invocations of find_best_path on it.  Every provider call (rate, fee)   *)
(* is an asyncio task of its own that completes in any order; the          *)
(* continuation of _evaluate_exchange after its inner gather is a          *)
(* deterministic local computation and is taken together with the call     *)
(* completion that wakes it.                                               *)
(*                                                                         *)
(* Numbers.  Amounts, fees and rates are integers; usdc_received, the      *)
(* quotient (zar_amount - fee) / rate, is kept as the exact fraction       *)
(* num/den and compared by cross-multiplication.  Within the bounds below  *)
(* two different fractions differ by far more than a float's rounding, so  *)
(* the order of the floats is the order of the fractions.                  *)
(***************************************************************************)
EXTENDS Integers, Sequences, FiniteSets, TLC

\* ------------------------------------------------------------------ bounds
Amount == 2
MaxRate == 2
MaxFee == 1
MaxCalls == 2
MaxDefaultAmount == 2
MaxInstances == 3
MaxConfigCalls == 4
MaxBalance == 1

\* ------------------------------------------------------------ data model
\* models.py: class Exchange(Enum)
Exchange == {"Binance", "Luno", "Bybit"}

\* A provider call either raises or returns a number.
Raises == [ok |-> FALSE, val |-> 0]
Returns(v) == [ok |-> TRUE, val |-> v]
RateOutcomes == {Raises} \cup {Returns(v) : v \in 0..MaxRate}
FeeOutcomes == {Raises} \cup {Returns(v) : v \in 0..MaxFee}

\* The float (zar_amount - fee) / rate as an exact fraction.
Frac(n, d) == [num |-> n, den |-> d]
Sgn(x) == IF x < 0 THEN -1 ELSE 1
\* a < b on fractions with non-zero denominators
FracLess(a, b) ==
    LET s == Sgn(a.den) * Sgn(b.den)
    IN  s * a.num * b.den < s * b.num * a.den
FracEq(a, b) == a.num * b.den = b.num * a.den

\* models.py: @dataclass ConversionPath
ConversionPath(e, amount, usdc, fee, rate) ==
    [exchange |-> e, zar_amount |-> amount, usdc_received |-> usdc,
     fee |-> fee, rate |-> rate]
\* what _evaluate_exchange returns from its except branch
None == [exchange |-> "None", zar_amount |-> 0, usdc_received |-> Frac(0, 1),
         fee |-> 0, rate |-> 0]

\* optimizer.py:79-83  the order in which the default mapping is written
DefaultOrder == <<"Binance", "Luno", "Bybit">>
Reverse(s) == [i \in DOMAIN s |-> s[Len(s) + 1 - i]]

\* The keys of the mapping in insertion order.  Every mapping of fewer than
\* three exchanges in every order; the full mapping in the order of the
\* code and in the opposite order (the providers' behaviour is arbitrary per
\* exchange, so the other four orders are these two with the names permuted).
Mappings ==
    {s \in UNION {[1..n -> Exchange] : n \in 0..Cardinality(Exchange)} :
        /\ \A i, j \in DOMAIN s : i # j => s[i] # s[j]
        /\ Len(s) = Cardinality(Exchange) =>
               s \in {DefaultOrder, Reverse(DefaultOrder)}}

Range(s) == {s[i] : i \in DOMAIN s}

\* The clients argument of ConversionOptimizer() when it is left out
NoMapping == <<"NoMapping">>

\* Mutant: a constructor without the default mapping registers nothing.
ClientsForNoDefault(arg) == IF arg = NoMapping THEN <<>> ELSE arg

\* Mutant: the default is taken for every falsy argument ("if not clients").
ClientsForFalsy(arg) == IF arg \in {NoMapping, <<>>} THEN DefaultOrder ELSE arg

\* optimizer.py:78-85  self.clients as __init__ binds it: the three built-in
\* providers when the argument is None, else the mapping handed in
ClientsFor(arg) == IF arg = NoMapping THEN DefaultOrder ELSE arg

\* The built-in providers.  Rates are in tenths of ZAR per USDC, fees in
\* thousandths of the amount.
BinanceRate == 185
LunoRate == 187
BybitRate == 186
BinanceFeePerMille == 1
LunoFeePerMille == 5
BybitFeePerMille == 3

\* Mutant: the rates of Luno and Bybit are exchanged.
DefaultRateLunoBybitSwapped(e) ==
    CASE e = "Binance" -> BinanceRate
      [] e = "Luno" -> BybitRate
      [] e = "Bybit" -> LunoRate

\* optimizer.py:32-34, 45-47, 58-60  get_zar_usdc_rate of the built-in client
DefaultRate(e) ==
    CASE e = "Binance" -> BinanceRate
      [] e = "Luno" -> LunoRate
      [] e = "Bybit" -> BybitRate

FeePerMille(e) ==
    CASE e = "Binance" -> BinanceFeePerMille
      [] e = "Luno" -> LunoFeePerMille
      [] e = "Bybit" -> BybitFeePerMille

\* optimizer.py:36-38, 49-51, 62-65  calculate_fee of the built-in client;
\* amounts are in thousandths of a rand and multiples of 1000, so that the
\* fee is a whole number of them
DefaultFee(e, amount) == (amount * FeePerMille(e)) \div 1000

\* The amounts find_best_path is called with on the built-in providers
DefaultAmounts == {1000 * k : k \in 0..MaxDefaultAmount}

VARIABLES
    clients,      \* self.clients: the registered exchanges, in insertion order
    rateOut,      \* what each provider's get_zar_usdc_rate does
    feeOut,       \* what each provider's calculate_fee does
    zar_amount,   \* the argument of find_best_path
    pc,           \* "idle" | "gathering" | "returned" | "raised"
    rateCall,     \* per exchange: "none" | "pending" | "returned" | "failed"
    feeCall,      \* per exchange: "none" | "pending" | "returned" | "failed"
    evalState,    \* per exchange: "none" | "running" | "done"
    evalResult,   \* per exchange: the ConversionPath or None of its evaluation
    completed,    \* the exchanges in the order their evaluations finished
    outcome,      \* what the running/last invocation produced
    returned,     \* the outcomes of all finished invocations, oldest first
    invoked,      \* per exchange, in the running/last invocation: how often
                  \* each provider method was called, and the fee's argument
    settings,     \* config.settings: 0 for None, else the Settings instance
    constructed,  \* how many Settings instances have been constructed
    calls,        \* the calls of get_settings and init_settings so far,
                  \* oldest first, each with the instance it returned or
                  \* bound (0 when it raised)
    builtByGet,   \* how many instances get_settings has built since the
                  \* last init_settings call
    replacedByGet, \* whether get_settings ever replaced an instance
    arcFn,        \* the arc_client function running: "none" |
                  \* "get_wallet_balance" | "send_usdc_on_arc"
    arcArgs,      \* its arguments
    arcPc,        \* where it is in its loop body
    rpc_urls_to_try,
    current,      \* position of current_rpc in rpc_urls_to_try
    last_error,
    native_balance,
    usdc_balance,
    contacted,    \* the endpoints init_web3 was called with, oldest first
    abandoned,    \* every value last_error was given, oldest first
    checked,      \* what the chain-ID check read: endpoint and ID
    built,        \* transactions built: endpoint and chainId field
    signed,       \* endpoints a transaction was signed for
    submitted,    \* send_raw_transaction calls: endpoint and success
    balanceRet,   \* what get_wallet_balance returned
    sendRet       \* what send_usdc_on_arc returned

optVars == <<clients, rateOut, feeOut, zar_amount, pc, rateCall, feeCall,
             evalState, evalResult, completed, outcome, returned, invoked>>
cfgVars == <<settings, constructed, calls, builtByGet, replacedByGet>>
arcVars == <<arcFn, arcArgs, arcPc, rpc_urls_to_try, current, last_error,
             native_balance, usdc_balance, contacted, abandoned, checked,
             built, signed, submitted, balanceRet, sendRet>>
vars == <<optVars, cfgVars, arcVars>>

\* ------------------------------------------------------- pure functions
\* Mutant: the fee is not deducted.
UsdcReceivedNoFee(amount, fee, rate) == Frac(amount, rate)

\* optimizer.py:105  usdc_received = (zar_amount - fee) / rate
UsdcReceived(amount, fee, rate) == Frac(amount - fee, rate)

\* Mutant: the gather wakes its awaiter only when both calls are over
\* (return_exceptions=True, or two awaits).
InnerGatherDoneAwaitAll(rstat, fstat) ==
    rstat \in {"returned", "failed"} /\ fstat \in {"returned", "failed"}

\* Mutant: the gather wakes its awaiter only on success.
InnerGatherDoneBothReturned(rstat, fstat) ==
    rstat = "returned" /\ fstat = "returned"

\* optimizer.py:99-102  asyncio.gather(rate, fee) without return_exceptions:
\* it wakes its awaiter at the first failure, or when both calls returned.
InnerGatherDone(rstat, fstat) ==
    \/ rstat = "failed"
    \/ fstat = "failed"
    \/ rstat = "returned" /\ fstat = "returned"

\* Mutant: a rate of 0 yields a path that receives nothing, instead of
\* raising ZeroDivisionError.
EvaluateExchangeZeroRatePath(e, amount, rate, fee) ==
    IF ~rate.ok \/ ~fee.ok
    THEN None
    ELSE IF rate.val = 0
    THEN ConversionPath(e, amount, Frac(0, 1), fee.val, rate.val)
    ELSE ConversionPath(e, amount, Frac(amount - fee.val, rate.val),
                        fee.val, rate.val)

\* Mutant: a failed fee call counts as a fee of 0 instead of excluding the
\* provider.
EvaluateExchangeFeeDefault(e, amount, rate, fee) ==
    IF ~rate.ok \/ rate.val = 0
    THEN None
    ELSE LET f == IF fee.ok THEN fee.val ELSE 0
         IN  ConversionPath(e, amount, Frac(amount - f, rate.val), f, rate.val)

\* optimizer.py:97-123  _evaluate_exchange once its gather has woken it:
\* a raised call, or the ZeroDivisionError of rate = 0, lands in the except
\* branch, which logs and returns None.
EvaluateExchange(e, amount, rate, fee) ==
    IF ~rate.ok \/ ~fee.ok
    THEN None
    ELSE IF rate.val = 0
    THEN None
    ELSE ConversionPath(e, amount, UsdcReceived(amount, fee.val, rate.val),
                        fee.val, rate.val)

\* Mutant: the results are collected as the tasks finish (as_completed).
GatherByCompletion == [i \in 1..Len(completed) |-> evalResult[completed[i]]]

\* optimizer.py:138-143  asyncio.gather(*tasks, return_exceptions=True):
\* the results are in the order of the tasks, that is of self.clients.keys(),
\* whatever the order in which the tasks finished.
GatherResults == [i \in 1..Len(clients) |-> evalResult[clients[i]]]

\* optimizer.py:146  isinstance(r, ConversionPath)
IsConversionPath(r) == r # None
\* Mutant: one failed evaluation discards the whole batch.
ValidPathsAllOrNothing(results) ==
    IF \E i \in DOMAIN results : results[i] = None THEN <<>> ELSE results

ValidPaths(results) == SelectSeq(results, IsConversionPath)

\* Mutant: an unstable insertion, ahead of the elements with an equal key.
InsertDescUnstable(s, p) ==
    LET k == Cardinality({i \in DOMAIN s :
                 FracLess(p.usdc_received, s[i].usdc_received)})
    IN  SubSeq(s, 1, k) \o <<p>> \o SubSeq(s, k + 1, Len(s))

\* list.sort(key=usdc_received, reverse=True): stable, so equal keys keep the
\* order they had in the list.  Insertion after every element whose key is
\* not smaller.
InsertDesc(s, p) ==
    LET k == Cardinality({i \in DOMAIN s :
                 ~FracLess(s[i].usdc_received, p.usdc_received)})
    IN  SubSeq(s, 1, k) \o <<p>> \o SubSeq(s, k + 1, Len(s))

RECURSIVE SortDesc(_)
SortDesc(s) ==
    IF s = <<>> THEN <<>>
    ELSE InsertDesc(SortDesc(SubSeq(s, 1, Len(s) - 1)), s[Len(s)])

\* Mutant: no sort at all.
UnsortedPaths(valid) == valid

\* Mutant: only the best path is moved to the front, the rest keeps its order.
BestFirstOnly(valid) ==
    IF valid = <<>> THEN <<>>
    ELSE LET b == CHOOSE i \in DOMAIN valid :
                      /\ \A j \in DOMAIN valid :
                             ~FracLess(valid[i].usdc_received,
                                       valid[j].usdc_received)
                      /\ \A j \in 1..(i - 1) :
                             FracLess(valid[j].usdc_received,
                                      valid[i].usdc_received)
         IN  <<valid[b]>> \o SubSeq(valid, 1, b - 1)
                         \o SubSeq(valid, b + 1, Len(valid))

\* optimizer.py:152  valid_paths.sort(key=lambda x: x.usdc_received, reverse=True)
SortedPaths(valid) == SortDesc(valid)

\* Mutant: the alternatives are the whole list, the optimal path included.
AlternativePathsAll(sorted) == sorted

\* optimizer.py:157  alternative_paths=valid_paths[1:]
AlternativePaths(sorted) == Tail(sorted)

\* optimizer.py:148-149  raise ValueError("No valid conversion paths found")
NoValidPath == [kind |-> "ValueError", optimal_path |-> None,
                alternative_paths |-> <<>>]
\* nothing produced yet
NoOutcome == [kind |-> "none", optimal_path |-> None,
              alternative_paths |-> <<>>]

\* Mutant: no check for an empty list; an empty result is returned.
FindBestPathOutcomeSilentEmpty(results) ==
    LET sorted == SortedPaths(ValidPaths(results))
    IN  [kind |-> "ConversionResult",
         optimal_path |-> IF sorted = <<>> THEN None ELSE sorted[1],
         alternative_paths |-> IF sorted = <<>> THEN <<>> ELSE Tail(sorted)]

\* optimizer.py:146-167  the part of find_best_path after the join
FindBestPathOutcome(results) ==
    LET valid_paths == ValidPaths(results)
    IN  IF valid_paths = <<>>
        THEN NoValidPath
        ELSE LET sorted == SortedPaths(valid_paths)
             IN  [kind |-> "ConversionResult",
                  optimal_path |-> sorted[1],
                  alternative_paths |-> AlternativePaths(sorted)]

\* ----------------------------------------------------------------- Init
\* no provider method called
NotInvoked == [rate |-> 0, fee |-> 0, feeArg |-> 0]

\* optimizer.py:99-102, 121-123  When one call of a provider raises, the
\* gather hands no value to _evaluate_exchange: what the other call returns is
\* read by nobody.  Such a call returns one fixed value instead of every
\* value (it may also raise).
SiblingOfRaiseIsFixed(rate, fee) ==
    /\ ~rate.ok => fee \in {Raises, Returns(0)}
    /\ ~fee.ok => rate \in {Raises, Returns(1)}

\* find_best_path has not been called
NoInvocation ==
    /\ pc = "idle"
    /\ rateCall = [e \in Exchange |-> "none"]
    /\ feeCall = [e \in Exchange |-> "none"]
    /\ evalState = [e \in Exchange |-> "none"]
    /\ evalResult = [e \in Exchange |-> None]
    /\ completed = <<>>
    /\ outcome = NoOutcome
    /\ returned = <<>>
    /\ invoked = [e \in Exchange |-> NotInvoked]

\* config.py:55  settings: Optional[Settings] = None, in a process that
\* never touches the configuration
ConfigUnused ==
    /\ settings = 0
    /\ constructed = 0
    /\ calls = <<>>
    /\ builtByGet = 0
    /\ replacedByGet = FALSE

\* arc_client.py:16-22  the endpoints, by host name, in the order of the list
ARC_RPC_URLS ==
    <<"rpc.testnet.arc.network", "arc-testnet.drpc.org",
      "rpc.blockdaemon.testnet.arc.network", "rpc.drpc.testnet.arc.network",
      "rpc.quicknode.testnet.arc.network">>

\* arc_client.py:29-30
CHAIN_ID == 5042002
ACCEPTED_CHAIN_IDS == {CHAIN_ID}
\* arc_client.py:27  the chain ID of the decommissioned network
LegacyChainId == 1243
\* what an endpoint may answer to eth_chainId
ChainIds == {CHAIN_ID, LegacyChainId}

\* the rpc_url argument left out, and one that is not in the list
NoUrl == "None"
CustomUrl == "localhost:8545"
RpcArgs == {NoUrl, ARC_RPC_URLS[2], CustomUrl}

\* what a call to an endpoint for its chain ID, or for a balance, does
ChainIdAnswers == {Raises} \cup {Returns(id) : id \in ChainIds}
BalanceAnswers == {Raises} \cup {Returns(b) : b \in 0..MaxBalance}

\* the values of last_error
NoError == [kind |-> "None", url |-> NoUrl, got |-> 0]
\* arc_client.py:233, 327  f'Error with {current_rpc}: {str(e)}'
ErrorWith(url) == [kind |-> "Error with", url |-> url, got |-> 0]
\* arc_client.py:191, 272  f'Wrong chain ID for {current_rpc}: ... got {chain_id}'
WrongChainId(url, id) == [kind |-> "Wrong chain ID", url |-> url, got |-> id]

\* the arguments of a call: the endpoint, and for send_usdc_on_arc whether
\* the private key and the recipient address are well-formed
Args(rpc_url, key_valid, recipient_valid) ==
    [rpc_url |-> rpc_url, key_valid |-> key_valid,
     recipient_valid |-> recipient_valid]
NoArgs == Args(NoUrl, TRUE, TRUE)
NoBalanceRet ==
    [status |-> "none", native_balance |-> 0, usdc_balance |-> 0,
     chain_id |-> 0, rpc_url |-> NoUrl, message |-> NoError]
NoSendRet == [success |-> FALSE, value |-> "none", url |-> NoUrl]

\* no function of arc_client.py has been called
ArcUnused ==
    /\ arcFn = "none"
    /\ arcArgs = NoArgs
    /\ arcPc = "idle"
    /\ rpc_urls_to_try = <<>>
    /\ current = 0
    /\ last_error = NoError
    /\ native_balance = 0
    /\ usdc_balance = 0
    /\ contacted = <<>>
    /\ abandoned = <<>>
    /\ checked = {}
    /\ built = <<>>
    /\ signed = <<>>
    /\ submitted = <<>>
    /\ balanceRet = NoBalanceRet
    /\ sendRet = NoSendRet

\* optimizer.py:71-87  ConversionOptimizer.__init__ with a mapping supplied;
\* the providers' behaviour (drawn from rates, fees) and the amount are the
\* environment's choice.
InitWith(mappings, rates, fees, amounts) ==
    /\ clients \in {ClientsFor(m) : m \in mappings}
    /\ rateOut \in [Exchange -> rates]
    /\ feeOut \in [Exchange -> fees]
    /\ \A e \in Exchange \ Range(clients) :
           rateOut[e] = Raises /\ feeOut[e] = Raises
    /\ \A e \in Range(clients) : SiblingOfRaiseIsFixed(rateOut[e], feeOut[e])
    /\ zar_amount \in amounts
    /\ NoInvocation
    /\ ConfigUnused
    /\ ArcUnused

Init == InitWith(Mappings, RateOutcomes, FeeOutcomes, {Amount})

\* -------------------------------------------------------------- actions
\* Mutant: the fee is asked for only once the rate is there (two awaits in a
\* row instead of one gather): no fee call for a provider whose rate raises.
EvaluationStartRateFirst(e, amount) ==
    IF rateOut[e].ok
    THEN [rateCall |-> "pending", feeCall |-> "pending",
          invoked |-> [rate |-> 1, fee |-> 1, feeArg |-> amount]]
    ELSE [rateCall |-> "pending", feeCall |-> "none",
          invoked |-> [rate |-> 1, fee |-> 0, feeArg |-> 0]]

\* optimizer.py:95-102  the first step of _evaluate_exchange: it calls
\* client.get_zar_usdc_rate() and client.calculate_fee(zar_amount), once
\* each, and hands both to one gather, which starts them.
EvaluationStart(e, amount) ==
    [rateCall |-> "pending", feeCall |-> "pending",
     invoked |-> [rate |-> 1, fee |-> 1, feeArg |-> amount]]

\* optimizer.py:135-143  find_best_path(amount) up to its await: one
\* _evaluate_exchange task per key of self.clients.  The event loop runs
\* ready tasks first in, first out, so every task takes its first step
\* before any provider call takes one.
StartInvocation(amount) ==
    /\ pc' = "gathering"
    /\ zar_amount' = amount
    /\ rateCall' = [e \in Exchange |->
                       IF e \in Range(clients)
                       THEN EvaluationStart(e, amount).rateCall ELSE "none"]
    /\ feeCall' = [e \in Exchange |->
                      IF e \in Range(clients)
                      THEN EvaluationStart(e, amount).feeCall ELSE "none"]
    /\ invoked' = [e \in Exchange |->
                      IF e \in Range(clients)
                      THEN EvaluationStart(e, amount).invoked ELSE NotInvoked]
    /\ evalState' = [e \in Exchange |->
                        IF e \in Range(clients) THEN "running" ELSE "none"]
    /\ evalResult' = [e \in Exchange |-> None]
    /\ completed' = <<>>
    /\ outcome' = NoOutcome

\* optimizer.py:125-143  find_best_path on an optimizer whose providers
\* answer the same at every invocation
FindBestPath ==
    /\ pc \in {"idle", "returned", "raised"}
    /\ Len(returned) < MaxCalls
    /\ StartInvocation(zar_amount)
    /\ UNCHANGED <<clients, rateOut, feeOut, returned, cfgVars, arcVars>>

\* The evaluation of e after one of its calls completed with the statuses
\* rstat, fstat: it resumes only if it is still awaiting its gather.
Resume(e, rstat, fstat) ==
    IF evalState[e] = "running" /\ InnerGatherDone(rstat, fstat)
    THEN /\ evalState' = [evalState EXCEPT ![e] = "done"]
         /\ evalResult' = [evalResult EXCEPT ![e] =
                EvaluateExchange(e, zar_amount, rateOut[e], feeOut[e])]
         /\ completed' = Append(completed, e)
    ELSE UNCHANGED <<evalState, evalResult, completed>>

\* optimizer.py:100  client.get_zar_usdc_rate() completes
RateCompletes(e) ==
    /\ rateCall[e] = "pending"
    /\ LET rstat == IF rateOut[e].ok THEN "returned" ELSE "failed"
       IN  /\ rateCall' = [rateCall EXCEPT ![e] = rstat]
           /\ Resume(e, rstat, feeCall[e])
    /\ UNCHANGED <<clients, rateOut, feeOut, zar_amount, pc, feeCall,
                   outcome, returned, invoked, cfgVars, arcVars>>

\* optimizer.py:101  client.calculate_fee(zar_amount) completes
FeeCompletes(e) ==
    /\ feeCall[e] = "pending"
    /\ LET fstat == IF feeOut[e].ok THEN "returned" ELSE "failed"
       IN  /\ feeCall' = [feeCall EXCEPT ![e] = fstat]
           /\ Resume(e, rateCall[e], fstat)
    /\ UNCHANGED <<clients, rateOut, feeOut, zar_amount, pc, rateCall,
                   outcome, returned, invoked, cfgVars, arcVars>>

\* Mutant: the join returns at the first finished task (FIRST_COMPLETED).
AnyTaskDone ==
    clients = <<>> \/ \E e \in Range(clients) : evalState[e] = "done"

\* Mutant: a timeout gives up on a provider none of whose calls has answered.
AllTasksDoneOrTimedOut ==
    \A e \in Range(clients) :
        \/ evalState[e] = "done"
        \/ rateCall[e] = "pending" /\ feeCall[e] = "pending"

\* optimizer.py:143  await asyncio.gather(*tasks, return_exceptions=True):
\* the future of the outer gather is done when every task is.
AllTasksDone == \A e \in Range(clients) : evalState[e] = "done"

\* Mutant: find_best_path drops from self.clients the providers that
\* yielded no path.
JoinPruningFailed ==
    /\ pc = "gathering"
    /\ AllTasksDone
    /\ outcome' = FindBestPathOutcome(GatherResults)
    /\ pc' = IF outcome'.kind = "ConversionResult" THEN "returned" ELSE "raised"
    /\ returned' = Append(returned, outcome')
    /\ clients' = SelectSeq(clients, LAMBDA e : evalResult[e] # None)
    /\ UNCHANGED <<rateOut, feeOut, zar_amount, rateCall, feeCall,
                   evalState, evalResult, completed, invoked, cfgVars, arcVars>>

\* Mutant: find_best_path keeps one result object on the optimizer, fills it
\* in at every invocation and returns it.
JoinSharedResult ==
    /\ pc = "gathering"
    /\ AllTasksDone
    /\ outcome' = FindBestPathOutcome(GatherResults)
    /\ pc' = IF outcome'.kind = "ConversionResult" THEN "returned" ELSE "raised"
    /\ returned' = [i \in 1..(Len(returned) + 1) |-> outcome']
    /\ UNCHANGED <<clients, rateOut, feeOut, zar_amount, rateCall, feeCall,
                   evalState, evalResult, completed, invoked, cfgVars, arcVars>>

\* optimizer.py:143-167  the outer gather wakes find_best_path once every
\* task has finished; it filters, sorts and returns, or raises.
Join ==
    /\ pc = "gathering"
    /\ AllTasksDone
    /\ outcome' = FindBestPathOutcome(GatherResults)
    /\ pc' = IF outcome'.kind = "ConversionResult" THEN "returned" ELSE "raised"
    /\ returned' = Append(returned, outcome')
    /\ UNCHANGED <<clients, rateOut, feeOut, zar_amount, rateCall, feeCall,
                   evalState, evalResult, completed, invoked, cfgVars, arcVars>>

Next ==
    \/ FindBestPath
    \/ \E e \in Exchange : RateCompletes(e)
    \/ \E e \in Exchange : FeeCompletes(e)
    \/ Join

Spec == Init /\ [][Next]_vars

\* Whether an invocation ends depends on what kind of answer a call gives,
\* not on the number: a rate call raises, returns 0 or returns a rate that
\* divides; a fee call raises or returns.
RateKinds == {Raises, Returns(0), Returns(1)}
FeeKinds == {Raises, Returns(0)}

\* Every provider call completes at some time (it returns or raises), and the
\* event loop runs a coroutine that is ready.
FairSpec ==
    /\ InitWith(Mappings, RateKinds, FeeKinds, {Amount})
    /\ [][Next]_vars
    /\ \A e \in Exchange : WF_vars(RateCompletes(e)) /\ WF_vars(FeeCompletes(e))
    /\ WF_vars(Join)

\* ------------------------------------------------- unvalidated numbers
\* optimizer.py:99-119, models.py:12-18  the rate, the fee and the amount are
\* floats no code tests: a provider's answer and the caller's amount of
\* either sign, and zero.
SignedRates == {Raises} \cup {Returns(v) : v \in {-1, 0, 1}}
SignedFees == {Raises} \cup {Returns(v) : v \in {-1, 0, 1}}
SignedAmounts == {-1, 0, 1}

\* An optimizer of at most two providers with such numbers
SpecSigned ==
    /\ InitWith({m \in Mappings : Len(m) < Cardinality(Exchange)},
                SignedRates, SignedFees, SignedAmounts)
    /\ [][Next]_vars

\* ---------------------------------------------------- built-in providers
\* optimizer.py:71-87  ConversionOptimizer() with no mapping; no amount has
\* been checked yet
InitDefault ==
    /\ clients = ClientsFor(NoMapping)
    /\ rateOut = [e \in Exchange |-> Returns(DefaultRate(e))]
    /\ feeOut = [e \in Exchange |-> Returns(DefaultFee(e, 0))]
    /\ zar_amount = 0
    /\ NoInvocation
    /\ ConfigUnused
    /\ ArcUnused

\* optimizer.py:125-143  find_best_path(amount) on the built-in providers,
\* whose calculate_fee answers by the amount it is checked
FindBestPathDefault ==
    \E amount \in DefaultAmounts :
        /\ pc \in {"idle", "returned", "raised"}
        /\ Len(returned) < MaxCalls
        /\ StartInvocation(amount)
        /\ feeOut' = [e \in Exchange |-> Returns(DefaultFee(e, amount))]
        /\ UNCHANGED <<clients, rateOut, returned, cfgVars, arcVars>>

NextDefault ==
    \/ FindBestPathDefault
    \/ \E e \in Exchange : RateCompletes(e)
    \/ \E e \in Exchange : FeeCompletes(e)
    \/ Join

SpecDefault == InitDefault /\ [][NextDefault]_vars

\* ------------------------------------------------------- configuration
Call(op, inst) == [op |-> op, inst |-> inst]

\* Mutant: get_settings without its "is None" test builds a new instance at
\* every call.
GetSettingsAlwaysBuilds(ok) ==
    /\ Len(calls) < MaxConfigCalls
    /\ ok => constructed < MaxInstances
    /\ IF ok
       THEN /\ constructed' = constructed + 1
            /\ settings' = constructed + 1
            /\ builtByGet' = builtByGet + 1
            /\ replacedByGet' = (replacedByGet \/ settings # 0)
            /\ calls' = Append(calls, Call("get", constructed + 1))
       ELSE /\ calls' = Append(calls, Call("get", 0))
            /\ UNCHANGED <<settings, constructed, builtByGet, replacedByGet>>
    /\ UNCHANGED <<optVars, arcVars>>

\* config.py:58-67  get_settings(): Settings() is built only when the global
\* is None; it raises when the environment does not validate (ok = FALSE,
\* config.py:45-51), and then nothing is assigned and nothing returned.
GetSettings(ok) ==
    /\ Len(calls) < MaxConfigCalls
    /\ (settings = 0 /\ ok) => constructed < MaxInstances
    /\ IF settings = 0
       THEN IF ok
            THEN /\ constructed' = constructed + 1
                 /\ settings' = constructed + 1
                 /\ builtByGet' = builtByGet + 1
                 /\ calls' = Append(calls, Call("get", constructed + 1))
                 /\ UNCHANGED replacedByGet
            ELSE /\ calls' = Append(calls, Call("get", 0))
                 /\ UNCHANGED <<settings, constructed, builtByGet,
                                replacedByGet>>
       ELSE /\ calls' = Append(calls, Call("get", settings))
            /\ UNCHANGED <<settings, constructed, builtByGet, replacedByGet>>
    /\ UNCHANGED <<optVars, arcVars>>

\* config.py:70-73  init_settings(): the global is bound to a new Settings(),
\* unless the constructor raises.
InitSettings(ok) ==
    /\ Len(calls) < MaxConfigCalls
    /\ ok => constructed < MaxInstances
    /\ IF ok
       THEN /\ constructed' = constructed + 1
            /\ settings' = constructed + 1
            /\ calls' = Append(calls, Call("init", constructed + 1))
       ELSE /\ calls' = Append(calls, Call("init", 0))
            /\ UNCHANGED <<settings, constructed>>
    /\ builtByGet' = 0
    /\ UNCHANGED replacedByGet
    /\ UNCHANGED <<optVars, arcVars>>

\* config.py:55, 76-78  the module once imported: under pytest the global is
\* None, otherwise init_settings() has run.
InitConfig ==
    /\ \/ settings = 0 /\ constructed = 0
       \/ settings = 1 /\ constructed = 1
    /\ calls = <<>>
    /\ builtByGet = 0
    /\ replacedByGet = FALSE
    /\ clients = <<>>
    /\ rateOut = [e \in Exchange |-> Raises]
    /\ feeOut = [e \in Exchange |-> Raises]
    /\ zar_amount = 0
    /\ NoInvocation
    /\ ArcUnused

NextConfig ==
    \/ \E ok \in BOOLEAN : GetSettings(ok)
    \/ \E ok \in BOOLEAN : InitSettings(ok)

SpecConfig == InitConfig /\ [][NextConfig]_vars

\* ------------------------------------------------------------ arc client
\* Mutant: the endpoint handed in is tried first and the list after it.
UrlsToTryThenList(rpc_url) ==
    IF rpc_url = NoUrl THEN ARC_RPC_URLS ELSE <<rpc_url>> \o ARC_RPC_URLS

\* arc_client.py:180, 261  [rpc_url] if rpc_url else ARC_RPC_URLS
UrlsToTry(rpc_url) == IF rpc_url = NoUrl THEN ARC_RPC_URLS ELSE <<rpc_url>>

current_rpc == rpc_urls_to_try[current]

\* arc_client.py:183, 264  the for loop goes on with the next endpoint, or
\* falls out of the list
NextEndpoint ==
    IF current < Len(rpc_urls_to_try)
    THEN current' = current + 1 /\ arcPc' = "init_web3"
    ELSE current' = current /\ arcPc' = "exhausted"

\* arc_client.py:190-192, 232-234 (271-273, 326-328)  last_error is set and
\* the loop continues
Abandon(err) ==
    /\ last_error' = err
    /\ abandoned' = Append(abandoned, err)
    /\ NextEndpoint

\* the loop body goes on to its next statement
Proceed(next) ==
    /\ arcPc' = next
    /\ UNCHANGED <<current, last_error, abandoned>>

\* One call starts: the list is chosen and the loop entered.
StartCall(fn, args) ==
    /\ arcFn = "none"
    /\ arcFn' = fn
    /\ arcArgs' = args
    /\ rpc_urls_to_try' = UrlsToTry(args.rpc_url)
    /\ current' = 1
    /\ arcPc' = "init_web3"
    /\ last_error' = NoError
    /\ UNCHANGED <<native_balance, usdc_balance, contacted, abandoned, checked,
                   built, signed, submitted, balanceRet, sendRet>>
    /\ UNCHANGED <<optVars, cfgVars>>

\* arc_client.py:169-183  get_wallet_balance(address, rpc_url)
GetWalletBalance ==
    \E rpc_url \in RpcArgs :
        StartCall("get_wallet_balance", Args(rpc_url, TRUE, TRUE))

\* arc_client.py:90-144, 186, 267  init_web3(current_rpc): the endpoint is
\* asked its chain ID; ConnectionError when that fails
InitWeb3 ==
    /\ arcPc = "init_web3"
    /\ contacted' = Append(contacted, current_rpc)
    /\ \E connected \in BOOLEAN :
           IF connected
           THEN Proceed("chain_id")
           ELSE Abandon(ErrorWith(current_rpc))
    /\ UNCHANGED <<arcFn, arcArgs, rpc_urls_to_try, native_balance,
                   usdc_balance, checked, built, signed, submitted,
                   balanceRet, sendRet>>
    /\ UNCHANGED <<optVars, cfgVars>>

\* Mutant: the chain ID is read and not tested.
VerifyChainIdUntested(answer, next) ==
    /\ IF ~answer.ok
       THEN Abandon(ErrorWith(current_rpc)) /\ UNCHANGED checked
       ELSE /\ Proceed(next)
            /\ checked' = checked \cup {[url |-> current_rpc, id |-> answer.val]}
    /\ UNCHANGED <<arcFn, arcArgs, rpc_urls_to_try, native_balance,
                   usdc_balance, contacted, built, signed, submitted,
                   balanceRet, sendRet>>
    /\ UNCHANGED <<optVars, cfgVars>>

\* arc_client.py:189-192, 270-273  chain_id = w3.eth.chain_id, a call to the
\* endpoint of its own; an ID outside ACCEPTED_CHAIN_IDS skips the endpoint
VerifyChainId(answer, next) ==
    /\ IF ~answer.ok
       THEN Abandon(ErrorWith(current_rpc)) /\ UNCHANGED checked
       ELSE /\ checked' = checked \cup {[url |-> current_rpc, id |-> answer.val]}
            /\ IF answer.val \notin ACCEPTED_CHAIN_IDS
               THEN Abandon(WrongChainId(current_rpc, answer.val))
               ELSE Proceed(next)
    /\ UNCHANGED <<arcFn, arcArgs, rpc_urls_to_try, native_balance,
                   usdc_balance, contacted, built, signed, submitted,
                   balanceRet, sendRet>>
    /\ UNCHANGED <<optVars, cfgVars>>

\* arc_client.py:188-192
BalanceChainId ==
    /\ arcFn = "get_wallet_balance"
    /\ arcPc = "chain_id"
    /\ \E answer \in ChainIdAnswers : VerifyChainId(answer, "get_balance")

\* arc_client.py:196-197  w3.eth.get_balance(address)
BalanceNative ==
    /\ arcPc = "get_balance"
    /\ \E answer \in BalanceAnswers :
           IF ~answer.ok
           THEN Abandon(ErrorWith(current_rpc)) /\ UNCHANGED native_balance
           ELSE Proceed("balanceOf") /\ native_balance' = answer.val
    /\ UNCHANGED <<arcFn, arcArgs, rpc_urls_to_try, usdc_balance, contacted,
                   checked, built, signed, submitted, balanceRet, sendRet>>
    /\ UNCHANGED <<optVars, cfgVars>>

\* arc_client.py:200-211  the USDC contract's balanceOf(address); its failure
\* enters the inner except branch
BalanceUsdc ==
    /\ arcPc = "balanceOf"
    /\ \E answer \in BalanceAnswers :
           IF ~answer.ok
           THEN Proceed("partial") /\ usdc_balance' = 0
           ELSE Proceed("success") /\ usdc_balance' = answer.val
    /\ UNCHANGED <<arcFn, arcArgs, rpc_urls_to_try, native_balance, contacted,
                   checked, built, signed, submitted, balanceRet, sendRet>>
    /\ UNCHANGED <<optVars, cfgVars>>

\* The dict of a return that carries balances; its chain_id is answer, what
\* the endpoint says when asked once more.  An exception of that call is
\* caught by the except of the loop body.
ReturnBalances(status, usdc, answer) ==
    /\ IF ~answer.ok
       THEN Abandon(ErrorWith(current_rpc)) /\ UNCHANGED balanceRet
       ELSE /\ arcPc' = "returned"
            /\ balanceRet' =
                   [status |-> status, native_balance |-> native_balance,
                    usdc_balance |-> usdc, chain_id |-> answer.val,
                    rpc_url |-> current_rpc, message |-> NoError]
            /\ UNCHANGED <<current, last_error, abandoned>>
    /\ UNCHANGED <<arcFn, arcArgs, rpc_urls_to_try, native_balance,
                   usdc_balance, contacted, checked, built, signed, submitted,
                   sendRet>>
    /\ UNCHANGED <<optVars, cfgVars>>

\* arc_client.py:211-219  return {'status': 'partial', ..., 'usdc_balance':
\* 0.0, 'chain_id': w3.eth.chain_id, ...}
BalanceReturnPartial ==
    /\ arcPc = "partial"
    /\ \E answer \in ChainIdAnswers : ReturnBalances("partial", 0, answer)

\* arc_client.py:221-230  actual_chain_id = w3.eth.chain_id; return
\* {'status': 'success', ...}
BalanceReturnSuccess ==
    /\ arcPc = "success"
    /\ \E answer \in ChainIdAnswers :
           ReturnBalances("success", usdc_balance, answer)

\* arc_client.py:236-241  the list is used up: return {'status': 'error', ...}
BalanceReturnError ==
    /\ arcFn = "get_wallet_balance"
    /\ arcPc = "exhausted"
    /\ arcPc' = "returned"
    /\ balanceRet' = [NoBalanceRet EXCEPT !.status = "error",
                                          !.message = last_error]
    /\ UNCHANGED <<arcFn, arcArgs, rpc_urls_to_try, current, last_error,
                   native_balance, usdc_balance, contacted, abandoned, checked,
                   built, signed, submitted, sendRet>>
    /\ UNCHANGED <<optVars, cfgVars>>

\* arc_client.py:243-264  send_usdc_on_arc(sender_private_key,
\* recipient_address, amount, arc_rpc_url)
SendUsdcOnArc ==
    \E rpc_url \in RpcArgs, key_valid, recipient_valid \in BOOLEAN :
        StartCall("send_usdc_on_arc", Args(rpc_url, key_valid, recipient_valid))

\* arc_client.py:269-273
SendChainId ==
    /\ arcFn = "send_usdc_on_arc"
    /\ arcPc = "chain_id"
    /\ \E answer \in ChainIdAnswers : VerifyChainId(answer, "from_key")

\* Mutant: an invalid recipient address is one more error of the endpoint,
\* and the next endpoint is tried.
SendValidateKeepsTrying ==
    /\ arcPc = "from_key"
    /\ IF ~arcArgs.key_valid \/ ~arcArgs.recipient_valid
       THEN Abandon(ErrorWith(current_rpc))
       ELSE Proceed("prepare")
    /\ UNCHANGED <<arcFn, arcArgs, rpc_urls_to_try, native_balance,
                   usdc_balance, contacted, checked, built, signed, submitted,
                   balanceRet, sendRet>>
    /\ UNCHANGED <<optVars, cfgVars>>

\* arc_client.py:275-281  Account.from_key raises on a malformed key; then
\* w3.is_address(recipient_address), a local test, decides the early return
SendValidate ==
    /\ arcPc = "from_key"
    /\ IF ~arcArgs.key_valid
       THEN Abandon(ErrorWith(current_rpc)) /\ UNCHANGED sendRet
       ELSE IF ~arcArgs.recipient_valid
       THEN /\ arcPc' = "returned"
            /\ sendRet' = [success |-> FALSE,
                           value |-> "Invalid recipient address",
                           url |-> NoUrl]
            /\ UNCHANGED <<current, last_error, abandoned>>
       ELSE Proceed("prepare") /\ UNCHANGED sendRet
    /\ UNCHANGED <<arcFn, arcArgs, rpc_urls_to_try, native_balance,
                   usdc_balance, contacted, checked, built, signed, submitted,
                   balanceRet>>
    /\ UNCHANGED <<optVars, cfgVars>>

\* arc_client.py:283-306  decimals().call(), get_transaction_count and
\* estimate_gas: calls to the endpoint, each of which may raise
SendPrepare ==
    /\ arcPc = "prepare"
    /\ \E answered \in BOOLEAN :
           IF answered
           THEN Proceed("build_transaction")
           ELSE Abandon(ErrorWith(current_rpc))
    /\ UNCHANGED <<arcFn, arcArgs, rpc_urls_to_try, native_balance,
                   usdc_balance, contacted, checked, built, signed, submitted,
                   balanceRet, sendRet>>
    /\ UNCHANGED <<optVars, cfgVars>>

\* arc_client.py:308-314  build_transaction({'chainId': w3.eth.chain_id,
\* 'gasPrice': w3.eth.gas_price, ...}): the chain ID is asked for again and
\* goes into the transaction as it is answered
SendBuild ==
    /\ arcPc = "build_transaction"
    /\ \E answer \in ChainIdAnswers, gas_price_and_build \in BOOLEAN :
           IF ~answer.ok \/ ~gas_price_and_build
           THEN Abandon(ErrorWith(current_rpc)) /\ UNCHANGED built
           ELSE /\ Proceed("sign_transaction")
                /\ built' = Append(built, [url |-> current_rpc,
                                           chainId |-> answer.val])
    /\ UNCHANGED <<arcFn, arcArgs, rpc_urls_to_try, native_balance,
                   usdc_balance, contacted, checked, signed, submitted,
                   balanceRet, sendRet>>
    /\ UNCHANGED <<optVars, cfgVars>>

\* arc_client.py:316  w3.eth.account.sign_transaction(txn, private_key=...),
\* a local computation that can raise on a transaction it cannot encode
SendSign ==
    /\ arcPc = "sign_transaction"
    /\ \E ok \in BOOLEAN :
           IF ok
           THEN Proceed("send_raw_transaction")
                    /\ signed' = Append(signed, current_rpc)
           ELSE Abandon(ErrorWith(current_rpc)) /\ UNCHANGED signed
    /\ UNCHANGED <<arcFn, arcArgs, rpc_urls_to_try, native_balance,
                   usdc_balance, contacted, checked, built, submitted,
                   balanceRet, sendRet>>
    /\ UNCHANGED <<optVars, cfgVars>>

\* Mutant: the function does not return after a submission, and goes on
\* with the next endpoint.
SendSubmitKeepsTrying ==
    /\ arcPc = "send_raw_transaction"
    /\ \E ok \in BOOLEAN :
           /\ submitted' = Append(submitted, [url |-> current_rpc, ok |-> ok])
           /\ IF ok
              THEN /\ sendRet' = [success |-> TRUE, value |-> "tx_hash",
                                  url |-> current_rpc]
                   /\ NextEndpoint
                   /\ UNCHANGED <<last_error, abandoned>>
              ELSE Abandon(ErrorWith(current_rpc)) /\ UNCHANGED sendRet
    /\ UNCHANGED <<arcFn, arcArgs, rpc_urls_to_try, native_balance,
                   usdc_balance, contacted, checked, built, signed,
                   balanceRet>>
    /\ UNCHANGED <<optVars, cfgVars>>

\* arc_client.py:318-324  tx_hash = w3.eth.send_raw_transaction(...);
\* return True, tx_hash.hex()
SendSubmit ==
    /\ arcPc = "send_raw_transaction"
    /\ \E ok \in BOOLEAN :
           /\ submitted' = Append(submitted, [url |-> current_rpc, ok |-> ok])
           /\ IF ok
              THEN /\ arcPc' = "returned"
                   /\ sendRet' = [success |-> TRUE, value |-> "tx_hash",
                                  url |-> current_rpc]
                   /\ UNCHANGED <<current, last_error, abandoned>>
              ELSE Abandon(ErrorWith(current_rpc)) /\ UNCHANGED sendRet
    /\ UNCHANGED <<arcFn, arcArgs, rpc_urls_to_try, native_balance,
                   usdc_balance, contacted, checked, built, signed,
                   balanceRet>>
    /\ UNCHANGED <<optVars, cfgVars>>

\* arc_client.py:330-331  the list is used up: return False, "Could not
\* connect to any RPC endpoint. Last error: ..."
SendReturnError ==
    /\ arcFn = "send_usdc_on_arc"
    /\ arcPc = "exhausted"
    /\ arcPc' = "returned"
    /\ sendRet' = [success |-> FALSE,
                   value |-> "Could not connect to any RPC endpoint",
                   url |-> NoUrl]
    /\ UNCHANGED <<arcFn, arcArgs, rpc_urls_to_try, current, last_error,
                   native_balance, usdc_balance, contacted, abandoned, checked,
                   built, signed, submitted, balanceRet>>
    /\ UNCHANGED <<optVars, cfgVars>>

\* The optimizer of a process that only uses arc_client.py
OptimizerUnused ==
    /\ clients = <<>>
    /\ rateOut = [e \in Exchange |-> Raises]
    /\ feeOut = [e \in Exchange |-> Raises]
    /\ zar_amount = 0
    /\ NoInvocation

InitArc ==
    /\ OptimizerUnused
    /\ ConfigUnused
    /\ ArcUnused

NextArc ==
    \/ GetWalletBalance
    \/ SendUsdcOnArc
    \/ InitWeb3
    \/ BalanceChainId
    \/ BalanceNative
    \/ BalanceUsdc
    \/ BalanceReturnPartial
    \/ BalanceReturnSuccess
    \/ BalanceReturnError
    \/ SendChainId
    \/ SendValidate
    \/ SendPrepare
    \/ SendBuild
    \/ SendSign
    \/ SendSubmit
    \/ SendReturnError

SpecArc == InitArc /\ [][NextArc]_vars

\* ----------------------------------------------------- claim vocabulary
Registered == Range(clients)
Terminal == pc \in {"returned", "raised"}
IndexOf(e) == CHOOSE i \in DOMAIN clients : clients[i] = e
\* optimal path first, then the alternatives
AllPaths(o) == <<o.optimal_path>> \o o.alternative_paths
Exchanges(s) == {s[i].exchange : i \in DOMAIN s}
\* the provider's two calls both return
BothCallsSucceed(e) == rateOut[e].ok /\ feeOut[e].ok
\* ... and the quotient exists
Succeeds(e) == BothCallsSucceed(e) /\ rateOut[e].val # 0
Successful == {e \in Registered : Succeeds(e)}
\* e's evaluation finished before f's
FinishedBefore(e, f) ==
    \E i, j \in DOMAIN completed :
        i < j /\ completed[i] = e /\ completed[j] = f

\* C1: in every returned result the optimal path's usdc_received is at least
\* that of every alternative path.
C1_OptimalIsMaximal ==
    pc = "returned" =>
        \A i \in DOMAIN outcome.alternative_paths :
            ~FracLess(outcome.optimal_path.usdc_received,
                      outcome.alternative_paths[i].usdc_received)

\* C1 witness: a result with two alternatives, both strictly worse than the
\* optimal path, whose provider was registered last.
C1_Witness ==
    /\ pc = "returned"
    /\ Len(outcome.alternative_paths) = 2
    /\ outcome.optimal_path.exchange = clients[3]
    /\ \A i \in 1..2 :
           FracLess(outcome.alternative_paths[i].usdc_received,
                    outcome.optimal_path.usdc_received)

\* C2 as stated: find_best_path raises exactly when no provider's rate and
\* fee calls both succeeded.
C2_RaisesIffNoCallPairSucceeded ==
    Terminal =>
        (pc = "raised" <=> ~\E e \in Registered : BothCallsSucceed(e))

\* C2 amended: find_best_path raises exactly when no provider's rate and fee
\* calls both succeeded with a rate other than 0.
C2_RaisesIffNoPath ==
    Terminal =>
        /\ pc = "raised" <=> Successful = {}
        /\ pc = "raised" <=> outcome = NoValidPath
        /\ pc = "returned" <=> outcome.kind = "ConversionResult"

\* C2 witness: three providers; one returns rate 0 and a fee, the others
\* raise; the invocation raises.
C2_Witness ==
    /\ pc = "raised"
    /\ Len(clients) = 3
    /\ \E e \in Registered : BothCallsSucceed(e) /\ rateOut[e].val = 0

\* C3: when every provider has a raising call, the invocation ends in the
\* error and produces no result; no outcome ever is a result without an
\* optimal path.
C3_AllFailRaises ==
    /\ (Terminal /\ \A e \in Registered : ~BothCallsSucceed(e)) =>
           /\ pc = "raised"
           /\ outcome = NoValidPath
           /\ returned[Len(returned)] = NoValidPath
    /\ \A i \in DOMAIN returned :
           returned[i].kind = "ConversionResult" =>
               /\ returned[i].optimal_path # None
               /\ returned[i].optimal_path.exchange \in Registered

\* C3 witness: three providers, each with a raising call, and the error.
C3_Witness ==
    /\ pc = "raised"
    /\ Len(clients) = 3
    /\ \A e \in Registered : ~BothCallsSucceed(e)
    /\ \E e \in Registered : ~rateOut[e].ok /\ feeOut[e].ok
    /\ \E e \in Registered : rateOut[e].ok /\ ~feeOut[e].ok

\* C4: every path of a returned result has usdc_received * rate =
\* zar_amount - fee, with the amount of the call and the fee and rate its own
\* provider returned.
C4_PathFormula ==
    pc = "returned" =>
        \A i \in DOMAIN AllPaths(outcome) :
            LET p == AllPaths(outcome)[i]
            IN  /\ p.exchange \in Registered
                /\ p.zar_amount = zar_amount
                /\ rateOut[p.exchange].ok /\ p.rate = rateOut[p.exchange].val
                /\ feeOut[p.exchange].ok /\ p.fee = feeOut[p.exchange].val
                /\ p.usdc_received.den # 0
                /\ p.usdc_received.num * p.rate
                       = (p.zar_amount - p.fee) * p.usdc_received.den

\* C4 witness: a result of three paths with three different fee/rate pairs,
\* one of them with a fee that is not 0.
C4_Witness ==
    /\ pc = "returned"
    /\ Len(outcome.alternative_paths) = 2
    /\ \A e, f \in Registered :
           e # f => <<rateOut[e], feeOut[e]>> # <<rateOut[f], feeOut[f]>>
    /\ outcome.alternative_paths[1].fee > 0

\* C5: the paths of a returned result are exactly the successful providers,
\* each once; k successes give k - 1 alternatives.
C5_PathsAreTheSuccesses ==
    pc = "returned" =>
        LET all == AllPaths(outcome)
        IN  /\ Exchanges(all) = Successful
            /\ Len(all) = Cardinality(Successful)
            /\ Len(outcome.alternative_paths) = Cardinality(Successful) - 1
            /\ \A i, j \in DOMAIN all : i # j => all[i].exchange # all[j].exchange
            /\ Cardinality(Successful) = 1 => outcome.alternative_paths = <<>>

\* C5 witness: two of three providers succeed, the first-registered fails.
C5_Witness ==
    /\ pc = "returned"
    /\ Len(clients) = 3
    /\ ~rateOut[clients[1]].ok
    /\ Len(outcome.alternative_paths) = 1
    /\ clients[1] \notin Exchanges(AllPaths(outcome))

\* The spec's scenario in halves of a unit (rate 1.5 is 3): amount 10000,
\* Binance rate 1 fee 0, Luno rate 2 fee 100, Bybit rate 1.5 fee 30.
ScenarioOutcome ==
    FindBestPathOutcome(
        <<EvaluateExchange("Binance", 20000, Returns(2), Returns(0)),
          EvaluateExchange("Luno", 20000, Returns(4), Returns(200)),
          EvaluateExchange("Bybit", 20000, Returns(3), Returns(60))>>)

\* C6: the alternatives are all successful paths but the optimal one, in
\* descending order of usdc_received; the scenario gives Binance, then
\* [Bybit, Luno].
C6_AlternativesDescending ==
    /\ pc = "returned" =>
           LET alt == outcome.alternative_paths
           IN  /\ \A i \in DOMAIN alt : \A j \in DOMAIN alt :
                      i < j => ~FracLess(alt[i].usdc_received,
                                         alt[j].usdc_received)
               /\ Exchanges(alt) = Successful \ {outcome.optimal_path.exchange}
    /\ ScenarioOutcome.optimal_path.exchange = "Binance"
    /\ [i \in 1..2 |-> ScenarioOutcome.alternative_paths[i].exchange]
           = <<"Bybit", "Luno">>

\* C6 witness: the best provider is registered first, the worst second: the
\* alternatives are the third, then the second.
C6_Witness ==
    /\ pc = "returned"
    /\ Len(outcome.alternative_paths) = 2
    /\ outcome.optimal_path.exchange = clients[1]
    /\ outcome.alternative_paths[1].exchange = clients[3]
    /\ FracLess(outcome.alternative_paths[2].usdc_received,
                outcome.alternative_paths[1].usdc_received)

\* C7: paths with equal usdc_received appear in registration order.
C7_TiesInRegistrationOrder ==
    pc = "returned" =>
        LET all == AllPaths(outcome)
        IN  \A i \in DOMAIN all : \A j \in DOMAIN all :
                (i < j /\ FracEq(all[i].usdc_received, all[j].usdc_received))
                    => IndexOf(all[i].exchange) < IndexOf(all[j].exchange)

\* C7 witness: three providers tie for the maximum, registered in the
\* opposite of the code's order, and the one that finished last is optimal.
C7_Witness ==
    /\ pc = "returned"
    /\ clients = Reverse(DefaultOrder)
    /\ Len(outcome.alternative_paths) = 2
    /\ \A i \in 1..2 :
           FracEq(outcome.optimal_path.usdc_received,
                  outcome.alternative_paths[i].usdc_received)
    /\ outcome.optimal_path.exchange = "Bybit"
    /\ completed[3] = "Bybit"

\* C8: all invocations with the same amount, mapping and provider outputs
\* produce the same outcome.
C8_Deterministic ==
    \A i \in DOMAIN returned : \A j \in DOMAIN returned :
        returned[i] = returned[j]

\* C8 witness: a second invocation returned a result with a tie, after its
\* evaluations finished in the opposite of the registration order.
C8_Witness ==
    /\ pc = "returned"
    /\ Len(returned) = 2
    /\ Len(outcome.alternative_paths) = 2
    /\ FracEq(outcome.alternative_paths[1].usdc_received,
              outcome.alternative_paths[2].usdc_received)
    /\ completed = Reverse(clients)

\* C9: whichever evaluation finished first, a path precedes another in the
\* result exactly when its usdc_received is greater, or equal with its
\* provider registered earlier.
C9_OrderIgnoresCompletion ==
    pc = "returned" =>
        LET all == AllPaths(outcome)
        IN  /\ Exchanges(all) = Successful
            /\ \A i \in DOMAIN all : \A j \in DOMAIN all :
                   i < j =>
                       \/ FracLess(all[j].usdc_received, all[i].usdc_received)
                       \/ /\ FracEq(all[i].usdc_received, all[j].usdc_received)
                          /\ IndexOf(all[i].exchange) < IndexOf(all[j].exchange)

\* C9 witness: every path of the result finished after the paths behind it,
\* two of them tie.
C9_Witness ==
    /\ pc = "returned"
    /\ Len(outcome.alternative_paths) = 2
    /\ LET all == AllPaths(outcome)
       IN  /\ \A i \in 1..2 : FinishedBefore(all[i + 1].exchange, all[i].exchange)
           /\ FracEq(all[1].usdc_received, all[2].usdc_received)
           /\ FracLess(all[3].usdc_received, all[2].usdc_received)

\* C10: a provider with a raising call does not keep any other provider out
\* of the result: every invocation ends with all evaluations finished, the
\* failed providers yielded None, every successful provider is in the result
\* with its own values, and the error is raised only when none succeeded.
C10_FailureIsLocal ==
    Terminal =>
        /\ outcome.kind \in {"ConversionResult", "ValueError"}
        /\ \A f \in Registered :
               ~BothCallsSucceed(f) =>
                   /\ evalState[f] = "done" /\ evalResult[f] = None
                   /\ \A e \in Registered \ {f} :
                          Succeeds(e) =>
                              /\ outcome.kind = "ConversionResult"
                              /\ \E i \in DOMAIN AllPaths(outcome) :
                                     AllPaths(outcome)[i] =
                                         ConversionPath(e, zar_amount,
                                             Frac(zar_amount - feeOut[e].val,
                                                  rateOut[e].val),
                                             feeOut[e].val, rateOut[e].val)

\* C10 witness: the first evaluation to finish failed on its rate call, its
\* fee call is still in flight, and the two other providers are in the
\* result.
C10_Witness ==
    /\ pc = "returned"
    /\ Len(clients) = 3
    /\ rateCall[completed[1]] = "failed"
    /\ feeCall[completed[1]] = "pending"
    /\ Len(outcome.alternative_paths) = 1

\* C11: in an invocation every registered provider has its rate method
\* called exactly once and its fee method exactly once, with the amount of
\* the invocation, and both calls are started, whatever its rate call does.
C11_EachMethodCalledOnce ==
    pc # "idle" =>
        \A e \in Exchange :
            IF e \in Registered
            THEN /\ invoked[e] = [rate |-> 1, fee |-> 1, feeArg |-> zar_amount]
                 /\ rateCall[e] # "none"
                 /\ feeCall[e] # "none"
            ELSE invoked[e] = NotInvoked

\* C11 witness: of three providers one had its rate call raise first, and its
\* fee call ran to its end all the same.
C11_Witness ==
    /\ Terminal
    /\ Len(clients) = 3
    /\ \E e \in Registered :
           /\ rateCall[e] = "failed"
           /\ feeCall[e] = "returned"
           /\ completed[1] = e
           /\ invoked[e].fee = 1

\* C12: while find_best_path waits, every registered provider's evaluation
\* has been started; once it has returned or raised, every evaluation has
\* finished.
C12_JoinAll ==
    /\ pc = "gathering" =>
           \A e \in Registered :
               evalState[e] \in {"running", "done"} /\ invoked[e].rate = 1
    /\ Terminal =>
           /\ \A e \in Registered : evalState[e] = "done"
           /\ Len(completed) = Len(clients)
           /\ Range(completed) = Registered

\* C12 witness: the best provider finished first, and the result still holds
\* the two that finished after it.
C12_Witness ==
    /\ pc = "returned"
    /\ Len(outcome.alternative_paths) = 2
    /\ completed[1] = outcome.optimal_path.exchange
    /\ FracLess(outcome.alternative_paths[1].usdc_received,
                outcome.optimal_path.usdc_received)

\* C13: with every call completing and a fair event loop, an invocation that
\* has started returns or raises.
C13_Terminates == (pc = "gathering") ~> Terminal

\* C13 witness: the last allowed invocation of three providers is over, and
\* no call is left in flight.
C13_Witness ==
    /\ Terminal
    /\ Len(returned) = MaxCalls
    /\ Len(clients) = 3
    /\ \A e \in Registered : rateCall[e] # "pending" /\ feeCall[e] # "pending"

\* C14: as long as some provider has neither call answered, the invocation
\* cannot return or raise, whatever the other providers have done.
C14_StalledProviderBlocks ==
    /\ (pc = "gathering"
        /\ \E e \in Registered :
               rateCall[e] = "pending" /\ feeCall[e] = "pending")
           => ~ENABLED Join
    /\ Terminal =>
           \A e \in Registered :
               ~(rateCall[e] = "pending" /\ feeCall[e] = "pending")

\* C14 witness: two providers have their paths, the third has answered
\* neither call, and the invocation is still waiting.
C14_Witness ==
    /\ pc = "gathering"
    /\ Len(clients) = 3
    /\ rateCall[clients[1]] = "pending" /\ feeCall[clients[1]] = "pending"
    /\ \A i \in 2..3 :
           evalState[clients[i]] = "done" /\ evalResult[clients[i]] # None

\* C20: both calls of a provider are started together; once one of them has
\* raised, the evaluation is over with None and the provider is in no result,
\* whether its other call is over or not; that other call stays able to
\* complete.
C20_FirstFailureEndsEvaluation ==
    pc # "idle" =>
        \A e \in Registered :
            /\ rateCall[e] # "none" /\ feeCall[e] # "none"
            /\ (rateCall[e] = "failed" \/ feeCall[e] = "failed") =>
                   /\ evalState[e] = "done"
                   /\ evalResult[e] = None
                   /\ Terminal => e \notin Exchanges(AllPaths(outcome))
            /\ (rateCall[e] = "failed" /\ feeCall[e] = "pending") =>
                   ENABLED FeeCompletes(e)
            /\ (feeCall[e] = "failed" /\ rateCall[e] = "pending") =>
                   ENABLED RateCompletes(e)

\* C20 witness: find_best_path has returned a result while the rate call of
\* a provider whose fee call raised is still in flight.
C20_Witness ==
    /\ pc = "returned"
    /\ \E e \in Registered : feeCall[e] = "failed" /\ rateCall[e] = "pending"

\* C15: an optimizer built without a mapping has the three built-in
\* providers in the order Binance, Luno, Bybit; no invocation of it raises,
\* and every result has two alternatives, which are the two exchanges other
\* than the optimal one.
C15_DefaultProviders ==
    /\ clients = <<"Binance", "Luno", "Bybit">>
    /\ pc # "raised"
    /\ \A i \in DOMAIN returned :
           /\ returned[i].kind = "ConversionResult"
           /\ Len(returned[i].alternative_paths) = 2
           /\ Exchanges(returned[i].alternative_paths)
                  = Exchange \ {returned[i].optimal_path.exchange}
           /\ returned[i].optimal_path.exchange \in Exchange

\* C15 witness: two invocations with different amounts have returned, the
\* second with its evaluations finishing in the order Bybit, Luno, Binance.
C15_Witness ==
    /\ pc = "returned"
    /\ Len(returned) = 2
    /\ returned[1].optimal_path.zar_amount = 1000
    /\ returned[2].optimal_path.zar_amount = 2000
    /\ completed = <<"Bybit", "Luno", "Binance">>

\* C16: every path of every returned result has a rate above zero, a fee
\* of at least zero and an input amount of at least zero, whatever amount
\* is checked and whatever the providers return.
C16_PathInvariant ==
    \A i \in DOMAIN returned :
        returned[i].kind = "ConversionResult" =>
            \A j \in DOMAIN AllPaths(returned[i]) :
                /\ AllPaths(returned[i])[j].rate > 0
                /\ AllPaths(returned[i])[j].fee >= 0
                /\ AllPaths(returned[i])[j].zar_amount >= 0

\* C17: no step of an invocation, from its start to its return or its
\* error, changes the registered exchanges, their order or the provider
\* bound to an exchange.
C17_MappingUnchanged ==
    [][clients' = clients /\ rateOut' = rateOut /\ feeOut' = feeOut]_vars

\* C17 witness: on three providers one invocation is over and a second has
\* returned a result without the provider whose evaluation failed.
C17_Witness ==
    /\ pc = "returned"
    /\ Len(returned) = 2
    /\ Len(clients) = 3
    /\ Len(outcome.alternative_paths) = 1
    /\ evalResult[clients[2]] = None

SinceInit ==
    {i \in DOMAIN calls : \A j \in i..Len(calls) : calls[j].op # "init"}

\* What the get_settings calls since the last init_settings call returned.
Got == {calls[i].inst : i \in {j \in SinceInit : calls[j].inst # 0}}

\* C19: the get_settings calls since the last init_settings call all returned
\* one and the same instance, the one the global holds; get_settings built at
\* most one instance in that time, and it never replaced an instance.
C19_Singleton ==
    /\ Got \subseteq {settings}
    /\ builtByGet <= 1
    /\ ~replacedByGet

\* C19 witness: after an init_settings call that raised, a get_settings call
\* that raised too, then two that returned the one instance the first of
\* them built.
C19_Witness ==
    /\ Len(calls) = 4
    /\ calls[1] = Call("init", 0)
    /\ calls[2] = Call("get", 0)
    /\ calls[3] = Call("get", 1)
    /\ calls[4] = Call("get", 1)
    /\ builtByGet = 1

\* both calls of e return, and the rate is 0
ZeroRate(e) == rateOut[e] = Returns(0) /\ feeOut[e].ok

\* C21: the evaluation of a provider whose rate is 0 ends with None, as that
\* of a provider with a raising call does; the provider is in no result,
\* every other provider that succeeds is in the result with its own values,
\* and alone it makes the invocation raise the no-valid-path error.
C21_ZeroRateIsFailure ==
    \A z \in Registered :
        ZeroRate(z) =>
            /\ evalState[z] = "done" => evalResult[z] = None
            /\ Terminal =>
                   /\ z \notin Exchanges(AllPaths(outcome))
                   /\ Successful = {} => (pc = "raised" /\ outcome = NoValidPath)
                   /\ \A e \in Successful :
                          /\ pc = "returned"
                          /\ \E i \in DOMAIN AllPaths(outcome) :
                                 AllPaths(outcome)[i] =
                                     ConversionPath(e, zar_amount,
                                         Frac(zar_amount - feeOut[e].val,
                                              rateOut[e].val),
                                         feeOut[e].val, rateOut[e].val)

\* C21 witness: of three providers the second answered both calls, with a
\* rate of 0, and the result holds the two others; and a provider with a
\* rate of 0 alone has made an invocation raise.
C21_Witness ==
    /\ pc = "returned"
    /\ Len(clients) = 3
    /\ ZeroRate(clients[2])
    /\ rateCall[clients[2]] = "returned" /\ feeCall[clients[2]] = "returned"
    /\ Exchanges(AllPaths(outcome)) = {clients[1], clients[3]}

\* C22: the constructor keeps an empty mapping empty; an optimizer with no
\* provider invokes none, never returns a result, and each of its
\* invocations raises the no-valid-path error, whatever the amount.
C22_EmptyMappingRaises ==
    /\ ClientsFor(<<>>) = <<>>
    /\ clients = <<>> =>
           /\ \A e \in Exchange :
                  /\ invoked[e] = NotInvoked
                  /\ rateCall[e] = "none" /\ feeCall[e] = "none"
           /\ pc # "returned"
           /\ \A i \in DOMAIN returned : returned[i] = NoValidPath
           /\ pc = "gathering" => ENABLED Join

\* C22 witness: an optimizer with an empty mapping has raised twice for a
\* negative amount.
C22_Witness ==
    /\ clients = <<>>
    /\ pc = "raised"
    /\ Len(returned) = 2
    /\ zar_amount = -1

\* C23: with the built-in providers every result for an amount above zero
\* has Binance as its optimal path and Bybit, then Luno, as alternatives.
C23_DefaultRanking ==
    \A i \in DOMAIN returned :
        returned[i].optimal_path.zar_amount > 0 =>
            /\ returned[i].optimal_path.exchange = "Binance"
            /\ Len(returned[i].alternative_paths) = 2
            /\ returned[i].alternative_paths[1].exchange = "Bybit"
            /\ returned[i].alternative_paths[2].exchange = "Luno"

\* C23 witness: results for two amounts above zero, the second from
\* evaluations that finished in the order Luno, Bybit, Binance.
C23_Witness ==
    /\ pc = "returned"
    /\ Len(returned) = 2
    /\ returned[1].optimal_path.zar_amount = 1000
    /\ returned[2].optimal_path.zar_amount = 2000
    /\ completed = <<"Luno", "Bybit", "Binance">>

\* arc_client vocabulary
Sending == arcFn = "send_usdc_on_arc"
Balancing == arcFn = "get_wallet_balance"
ArcReturned == arcPc = "returned"
\* the endpoints whose chain-ID check read an accepted ID
PassedCheck == {c.url : c \in {d \in checked : d.id \in ACCEPTED_CHAIN_IDS}}
\* the endpoints whose chain-ID check read another ID
FailedCheck == {c.url : c \in {d \in checked : d.id \notin ACCEPTED_CHAIN_IDS}}
\* the endpoints a transaction was built, signed or submitted through
UsedForTransaction ==
    {built[i].url : i \in DOMAIN built} \cup Range(signed)
        \cup {submitted[i].url : i \in DOMAIN submitted}
Succeeded == {i \in DOMAIN submitted : submitted[i].ok}

\* C24: send_usdc_on_arc builds, signs and submits only through endpoints
\* whose chain-ID check read an accepted ID; an endpoint whose check read
\* another ID is given up with the wrong-chain error, is used for no
\* transaction, and the endpoint after it in the list is the next contacted.
C24_WrongChainSkipped ==
    Sending =>
        /\ UsedForTransaction \subseteq PassedCheck
        /\ UsedForTransaction \cap FailedCheck = {}
        /\ \A i \in DOMAIN rpc_urls_to_try :
               rpc_urls_to_try[i] \in FailedCheck =>
                   /\ i <= Len(abandoned)
                   /\ abandoned[i].kind = "Wrong chain ID"
                   /\ abandoned[i].url = rpc_urls_to_try[i]
                   /\ abandoned[i].got \notin ACCEPTED_CHAIN_IDS
                   /\ i < Len(rpc_urls_to_try) =>
                          /\ current > i
                          /\ Len(contacted) > i =>
                                 contacted[i + 1] = rpc_urls_to_try[i + 1]
                          /\ Len(contacted) = i =>
                                 (current = i + 1 /\ arcPc = "init_web3")

\* C24 witness: the first endpoint answered the legacy chain ID, and the
\* transaction was submitted through the second.
C24_Witness ==
    /\ Sending
    /\ ArcReturned
    /\ sendRet.success
    /\ abandoned = <<WrongChainId(ARC_RPC_URLS[1], LegacyChainId)>>
    /\ submitted = <<[url |-> ARC_RPC_URLS[2], ok |-> TRUE]>>

\* C25: send_usdc_on_arc has returned (True, tx_hash) exactly when a
\* send_raw_transaction call succeeded; at most one does, it is the last call
\* made, the function returns with it and its endpoint is the last one
\* contacted; a (False, message) return has no successful submission.
C25_OneSubmission ==
    Sending =>
        /\ Cardinality(Succeeded) <= 1
        /\ ArcReturned => (sendRet.success <=> Succeeded # {})
        /\ sendRet.success => ArcReturned
        /\ Succeeded # {} =>
               /\ ArcReturned
               /\ Succeeded = {Len(submitted)}
               /\ sendRet = [success |-> TRUE, value |-> "tx_hash",
                             url |-> submitted[Len(submitted)].url]
               /\ contacted[Len(contacted)] = submitted[Len(submitted)].url
               /\ Len(contacted) = current

\* C25 witness: a submission through the first endpoint raised, the second
\* endpoint did not connect, and the submission through the third succeeded.
C25_Witness ==
    /\ Sending
    /\ ArcReturned
    /\ sendRet.success
    /\ submitted = <<[url |-> ARC_RPC_URLS[1], ok |-> FALSE],
                     [url |-> ARC_RPC_URLS[3], ok |-> TRUE]>>
    /\ Len(contacted) = 3

\* C26: with a well-formed key and an invalid recipient address, once an
\* endpoint has passed the chain-ID check the function is at its address
\* test or has returned (False, "Invalid recipient address") there: nothing
\* was built, signed or submitted, and no later endpoint was contacted.
C26_InvalidRecipientReturns ==
    (Sending /\ arcArgs.key_valid /\ ~arcArgs.recipient_valid
        /\ PassedCheck # {}) =>
        /\ arcPc \in {"from_key", "returned"}
        /\ PassedCheck = {current_rpc}
        /\ Len(contacted) = current
        /\ UsedForTransaction = {}
        /\ ArcReturned =>
               sendRet = [success |-> FALSE,
                          value |-> "Invalid recipient address",
                          url |-> NoUrl]

\* C26 witness: the first endpoint did not connect, the second passed the
\* check, and the call returned the invalid-recipient message with three
\* endpoints left.
C26_Witness ==
    /\ Sending
    /\ ArcReturned
    /\ sendRet.value = "Invalid recipient address"
    /\ Len(rpc_urls_to_try) = 5
    /\ contacted = <<ARC_RPC_URLS[1], ARC_RPC_URLS[2]>>

\* C27: get_wallet_balance tries the endpoint it is given and no other, or
\* else the list from its first entry on; the endpoints contacted are a
\* prefix of that list, each one before the current was given up for an
\* error or a wrong chain ID, and a return with balances comes from the
\* last endpoint contacted.
C27_EndpointsInOrder ==
    Balancing =>
        /\ rpc_urls_to_try = IF arcArgs.rpc_url = NoUrl
                             THEN ARC_RPC_URLS
                             ELSE <<arcArgs.rpc_url>>
        /\ Len(contacted) <= Len(rpc_urls_to_try)
        /\ \A i \in DOMAIN contacted : contacted[i] = rpc_urls_to_try[i]
        /\ Len(contacted) = IF arcPc = "init_web3" THEN current - 1 ELSE current
        /\ Len(abandoned) = IF arcPc = "exhausted"
                                \/ balanceRet.status = "error"
                            THEN current
                            ELSE current - 1
        /\ \A i \in DOMAIN abandoned :
               /\ abandoned[i].url = rpc_urls_to_try[i]
               /\ abandoned[i].kind \in {"Error with", "Wrong chain ID"}
        /\ balanceRet.status \in {"success", "partial"} =>
               /\ ArcReturned
               /\ balanceRet.rpc_url = contacted[Len(contacted)]
               /\ Len(abandoned) = Len(contacted) - 1

\* C27 witness: four endpoints of the list were given up, the second for
\* its chain ID, and the fifth returned the balances.
C27_Witness ==
    /\ Balancing
    /\ balanceRet.status = "success"
    /\ balanceRet.rpc_url = ARC_RPC_URLS[5]
    /\ abandoned[2] = WrongChainId(ARC_RPC_URLS[2], LegacyChainId)
    /\ abandoned[4] = ErrorWith(ARC_RPC_URLS[4])

\* C28: get_wallet_balance ends with a return; the status is 'error' exactly
\* when every endpoint tried was given up, with the error of the last one as
\* message; a 'success' or 'partial' return has a chain_id in
\* ACCEPTED_CHAIN_IDS.
C28_ErrorIffAllFailed ==
    (Balancing /\ ArcReturned) =>
        /\ balanceRet.status \in {"success", "partial", "error"}
        /\ balanceRet.status = "error" <=>
               Len(abandoned) = Len(rpc_urls_to_try)
        /\ balanceRet.status = "error" =>
               /\ balanceRet.message = abandoned[Len(abandoned)]
               /\ balanceRet.message.url = rpc_urls_to_try[Len(rpc_urls_to_try)]
        /\ balanceRet.status \in {"success", "partial"} =>
               balanceRet.chain_id \in ACCEPTED_CHAIN_IDS

\* C29: when the USDC query of an endpoint has failed after its native
\* balance was read, the next step is the 'partial' return from that
\* endpoint, with usdc_balance 0.0, and the loop does not go on.
C29_UsdcFailureReturnsPartial ==
    [][arcPc = "partial" =>
          /\ arcPc' = "returned"
          /\ balanceRet'.status = "partial"
          /\ balanceRet'.usdc_balance = 0
          /\ balanceRet'.native_balance = native_balance
          /\ balanceRet'.rpc_url = current_rpc
          /\ current' = current
          /\ contacted' = contacted]_vars

====
